---- MODULE Spec2Model ----
(***************************************************************************)
(* Model of matchms/filtering/repair_adduct/interpret_unknown_adduct.py.   *)
(*                                                                         *)
(* A string is a sequence of one-character strings.  Every function of the *)
(* module is an operator computed the way the Python code computes it (the *)
(* regular expressions are modelled by left-to-right findall scans), and   *)
(* one call of get_multiplier_and_mass_from_adduct is a small state        *)
(* machine: one action per call it makes.  An exception is recorded in     *)
(* `raised`.  Masses are integers in units of 1e-4 Da; the two outputs are *)
(* exact fractions num/den.                                                *)
(***************************************************************************)
EXTENDS Integers, Sequences, FiniteSets, TLC

VARIABLES adduct, pc, charge, parent_mass, ions, ions_split, parent_span,
          ion_spans, mass_of_ions, lookups, result, raised, log, called

vars == <<adduct, pc, charge, parent_mass, ions, ions_split, parent_span,
          ion_spans, mass_of_ions, lookups, result, raised, log, called>>

(* ------------------------------ bounds -------------------------------- *)
\* characters of free text in a character-level input
MaxBody == 4

\* characters after the ions in a charge-level input
MaxTail == 4

\* freely chosen ion tokens in a token-level input
MaxIons == 1

(* --------------------------- Python basics ---------------------------- *)
\* an optional value is a sequence of length at most one
None == <<>>

Some(x) == <<x>>

Val(o) == o[1]

NoExc == "none"

Digits == {"0", "1", "2", "3", "4", "5", "6", "7", "8", "9"}

Signs == {"+", "-"}

Letters == {"a", "b", "c", "d", "e", "f", "g", "h", "i", "j", "k", "l", "m",
            "n", "o", "p", "q", "r", "s", "t", "u", "v", "w", "x", "y", "z",
            "A", "B", "C", "D", "E", "F", "G", "H", "I", "J", "K", "L", "M",
            "N", "O", "P", "Q", "R", "S", "T", "U", "V", "W", "X", "Y", "Z"}

AlNum == Digits \cup Letters

\* the character at position i, or "$" outside the string
At(s, i) == IF i >= 1 /\ i <= Len(s) THEN s[i] ELSE "$"

Abs(n) == IF n < 0 THEN -n ELSE n

SetMax(S) == CHOOSE m \in S : \A k \in S : k <= m

DigitVal == [d \in Digits |->
               CASE d = "0" -> 0 [] d = "1" -> 1 [] d = "2" -> 2 [] d = "3" -> 3
                 [] d = "4" -> 4 [] d = "5" -> 5 [] d = "6" -> 6 [] d = "7" -> 7
                 [] d = "8" -> 8 [] d = "9" -> 9]

RECURSIVE DigitsToNat(_)
DigitsToNat(ds) ==
    IF ds = <<>> THEN 0
    ELSE 10 * DigitsToNat(SubSeq(ds, 1, Len(ds) - 1)) + DigitVal[ds[Len(ds)]]

\* int(s) for a string made of an optional sign and digits
PyInt(s) ==
    IF At(s, 1) = "-" THEN -DigitsToNat(Tail(s))
    ELSE IF At(s, 1) = "+" THEN DigitsToNat(Tail(s))
    ELSE DigitsToNat(s)

DigitChar(n) == CHOOSE d \in Digits : DigitVal[d] = n

RECURSIVE PyStr(_)
\* str(n) for a natural number n
PyStr(n) == IF n < 10 THEN <<DigitChar(n)>>
            ELSE PyStr(n \div 10) \o <<DigitChar(n % 10)>>

Frac(n, d) == [num |-> n, den |-> d]

(* ------------------------ get_charge_of_adduct ------------------------ *)
\* length of the match of \]([0-9]?[+-]) that starts at i; 0 when none
ChargeMatchLen(s, i) ==
    IF At(s, i) # "]" THEN 0
    ELSE IF At(s, i + 1) \in Digits /\ At(s, i + 2) \in Signs THEN 3
    ELSE IF At(s, i + 1) \in Signs THEN 2
    ELSE 0

RECURSIVE FindAllCharge(_, _)
\* re.findall(r"\]([0-9]?[+-])", s): the captured groups, scanning from i
FindAllCharge(s, i) ==
    IF i > Len(s) THEN <<>>
    ELSE LET n == ChargeMatchLen(s, i) IN
         IF n = 0 THEN FindAllCharge(s, i + 1)
         ELSE <<SubSeq(s, i + 1, i + n - 1)>> \o FindAllCharge(s, i + n)

\* faulty variant: the first match is used whenever there is one
get_charge_first_match(s) ==
    LET found == FindAllCharge(s, 1) IN
    IF Len(found) = 0
    THEN [value |-> None, log |-> <<"charge_count">>]
    ELSE LET c == found[1] IN
         IF Len(c) = 1
         THEN [value |-> Some(PyInt(<<c[1]>> \o <<"1">>)), log |-> <<>>]
         ELSE [value |-> Some(PyInt(<<c[2]>> \o <<c[1]>>)), log |-> <<>>]

get_charge_of_adduct(s) ==
    LET found == FindAllCharge(s, 1) IN
    IF Len(found) # 1
    THEN [value |-> None, log |-> <<"charge_count">>]
    ELSE LET c == found[1] IN
         IF Len(c) = 1
         THEN [value |-> Some(PyInt(<<c[1]>> \o <<"1">>)), log |-> <<>>]
         ELSE IF Len(c) = 2
         THEN [value |-> Some(PyInt(<<c[2]>> \o <<c[1]>>)), log |-> <<>>]
         ELSE [value |-> None, log |-> <<"charge_length">>]

(* ------------------------------ split_ion ----------------------------- *)
RECURSIVE DigitPrefixLen(_, _)
\* number of leading digits of s from position i on
DigitPrefixLen(s, i) ==
    IF At(s, i) \in Digits THEN 1 + DigitPrefixLen(s, i + 1) ELSE 0

\* number is the digit string of the token, or the integer 1 when the token
\* has no digits: isInt tells which
py_str(sp) == IF sp.isInt THEN PyStr(sp.number) ELSE sp.number

py_int(sp) == IF sp.isInt THEN sp.number ELSE PyInt(sp.number)

split_ion(ion) ==
    LET sign == At(ion, 1)
        rest == IF ion = <<>> THEN <<>> ELSE Tail(ion)
        k    == DigitPrefixLen(rest, 1)
    IN  IF ion = <<>> THEN [exc |-> "IndexError"]
        ELSE IF sign \notin Signs THEN [exc |-> "AssertionError"]
        ELSE IF k > 0
        THEN [exc |-> NoExc, sign |-> sign, isInt |-> FALSE,
              number |-> SubSeq(rest, 1, k), ion |-> SubSeq(rest, k + 1, Len(rest))]
        ELSE [exc |-> NoExc, sign |-> sign, isInt |-> TRUE,
              number |-> 1, ion |-> rest]

(* ------------------------ replace_abbreviations ----------------------- *)
abbrev_to_formula ==
    (<<"A", "C", "N">> :> <<"C", "H", "3", "C", "N">>)
 @@ (<<"D", "M", "S", "O">> :> <<"C", "2", "H", "6", "O", "S">>)
 @@ (<<"F", "A">> :> <<"C", "H", "2", "O", "2">>)
 @@ (<<"H", "A", "c">> :> <<"C", "H", "3", "C", "O", "O", "H">>)
 @@ (<<"H", "a", "c">> :> <<"C", "H", "3", "C", "O", "O", "H">>)
 @@ (<<"T", "F", "A">> :> <<"C", "2", "H", "F", "3", "O", "2">>)
 @@ (<<"I", "s", "o", "P", "r", "o", "p">> :>
        <<"C", "H", "3", "C", "H", "O", "H", "C", "H", "3">>)
 @@ (<<"M", "e", "O", "H">> :> <<"C", "H", "3", "O", "H">>)

\* faulty variant: the identifier is never substituted
corrected_ion_unreplaced(ion) ==
    LET sp == split_ion(ion) IN
    IF sp.exc # NoExc THEN [exc |-> sp.exc]
    ELSE [exc |-> NoExc, ion |-> <<sp.sign>> \o py_str(sp) \o sp.ion]

\* faulty variant: the count is left out of the rebuilt token
corrected_ion_uncounted(ion) ==
    LET sp == split_ion(ion) IN
    IF sp.exc # NoExc THEN [exc |-> sp.exc]
    ELSE [exc |-> NoExc,
          ion |-> <<sp.sign>>
                  \o (IF sp.ion \in DOMAIN abbrev_to_formula
                      THEN abbrev_to_formula[sp.ion] ELSE sp.ion)]

\* one pass of the loop body of replace_abbreviations
corrected_ion(ion) ==
    LET sp == split_ion(ion) IN
    IF sp.exc # NoExc THEN [exc |-> sp.exc]
    ELSE [exc |-> NoExc,
          ion |-> <<sp.sign>> \o py_str(sp)
                  \o (IF sp.ion \in DOMAIN abbrev_to_formula
                      THEN abbrev_to_formula[sp.ion] ELSE sp.ion)]

RECURSIVE replace_abbreviations(_)
replace_abbreviations(tokens) ==
    IF tokens = <<>> THEN [exc |-> NoExc, ions |-> <<>>]
    ELSE LET c == corrected_ion(Head(tokens)) IN
         IF c.exc # NoExc THEN [exc |-> c.exc]
         ELSE LET r == replace_abbreviations(Tail(tokens)) IN
              IF r.exc # NoExc THEN [exc |-> r.exc]
              ELSE [exc |-> NoExc, ions |-> <<c.ion>> \o r.ions]

(* ------------------------ get_ions_from_adduct ------------------------ *)
RECURSIVE FindAllBrackets(_, _)
\* re.findall(r"\[(.*)\]", s): the captured groups, scanning from i; the
\* greedy .* runs to the last "]" of the string
FindAllBrackets(s, i) ==
    IF i > Len(s) THEN <<>>
    ELSE LET closers == {j \in (i + 1)..Len(s) : s[j] = "]"} IN
         IF s[i] = "[" /\ closers # {}
         THEN LET e == SetMax(closers) IN
              <<SubSeq(s, i + 1, e - 1)>> \o FindAllBrackets(s, e + 1)
         ELSE FindAllBrackets(s, i + 1)

\* length of the group ([0-9]?M) at j; 0 when it does not match there
ParentGroupLen(s, j) ==
    IF At(s, j) \in Digits /\ At(s, j + 1) = "M" THEN 2
    ELSE IF At(s, j) = "M" THEN 1
    ELSE 0

\* ([0-9]?M)(?:$|[+-]) at j: the position after the match, 0 when none
ParentGroupEnd(s, j) ==
    LET n == ParentGroupLen(s, j) IN
    IF n = 0 THEN 0
    ELSE IF j + n = Len(s) + 1 THEN j + n
    ELSE IF At(s, j + n) \in Signs THEN j + n + 1
    ELSE 0

\* (?:^|[+-])([0-9]?M)(?:$|[+-]) at i: where the group starts, 0 when none
ParentGroupStart(s, i) ==
    IF i = 1 /\ ParentGroupEnd(s, 1) # 0 THEN 1
    ELSE IF At(s, i) \in Signs /\ ParentGroupEnd(s, i + 1) # 0 THEN i + 1
    ELSE 0

RECURSIVE FindAllParent(_, _)
\* re.findall of the parent-mass pattern: the spans of the captured groups
FindAllParent(s, i) ==
    IF i > Len(s) THEN <<>>
    ELSE LET j == ParentGroupStart(s, i) IN
         IF j = 0 THEN FindAllParent(s, i + 1)
         ELSE <<[first |-> j, last |-> j + ParentGroupLen(s, j) - 1]>>
              \o FindAllParent(s, ParentGroupEnd(s, j))

RECURSIVE AlNumRunLen(_, _)
AlNumRunLen(s, i) == IF At(s, i) \in AlNum THEN 1 + AlNumRunLen(s, i + 1) ELSE 0

RECURSIVE FindAllIons(_, _)
\* re.findall(r"([+-][0-9a-zA-Z]+)", s): the spans of the matches
FindAllIons(s, i) ==
    IF i > Len(s) THEN <<>>
    ELSE LET n == AlNumRunLen(s, i + 1) IN
         IF At(s, i) \in Signs /\ n > 0
         THEN <<[first |-> i, last |-> i + n]>> \o FindAllIons(s, i + n + 1)
         ELSE FindAllIons(s, i + 1)

SpanText(s, sp) == SubSeq(s, sp.first, sp.last)

Texts(s, spans) == [k \in 1..Len(spans) |-> SpanText(s, spans[k])]

\* the substring the patterns are applied to (line 45), None when the
\* bracket check fails
ions_part(s) ==
    IF \E k \in 1..Len(s) : s[k] = "["
    THEN LET found == FindAllBrackets(s, 1) IN
         IF Len(found) # 1 THEN None ELSE Some(found[1])
    ELSE Some(s)

IonsFailure(exc, lg) ==
    [exc |-> exc, parent_mass |-> None, ions |-> None, ions_split |-> <<>>,
     parent_span |-> None, ion_spans |-> <<>>, log |-> lg]

get_ions_from_adduct(s) ==
    IF ions_part(s) = None THEN IonsFailure(NoExc, <<"brackets">>)
    ELSE LET w      == Val(ions_part(s))
             found  == FindAllParent(w, 1)
             lg     == IF Len(found) # 1 THEN <<"parent_count">> ELSE <<>>
             spans  == FindAllIons(w, 1)
             tokens == Texts(w, spans)
             repl   == replace_abbreviations(tokens)
         IN  IF Len(found) = 0 THEN IonsFailure("IndexError", lg)
             ELSE IF repl.exc # NoExc THEN IonsFailure(repl.exc, lg)
             ELSE LET pm == SpanText(w, found[1]) IN
                  [exc |-> NoExc,
                   parent_mass |-> Some(IF pm = <<"M">> THEN 1 ELSE PyInt(<<pm[1]>>)),
                   ions |-> Some(repl.ions), ions_split |-> tokens,
                   parent_span |-> Some(found[1]), ion_spans |-> spans, log |-> lg]

(* --------------------------- get_mass_of_ion -------------------------- *)
\* monoisotopic masses of the elements, in units of 1e-4 Da
ElementMass ==
    ("H" :> 10078) @@ ("C" :> 120000) @@ ("N" :> 140031) @@ ("O" :> 159949)
 @@ ("F" :> 189984) @@ ("S" :> 319721)

RECURSIVE FormulaSum(_, _)
\* the mass of the element symbols and counts of f from position i on, None
\* when something that is no element symbol with a positive count is met
FormulaSum(f, i) ==
    IF i > Len(f) THEN Some(0)
    ELSE IF f[i] \notin DOMAIN ElementMass THEN None
    ELSE LET k    == DigitPrefixLen(f, i + 1)
             n    == IF k = 0 THEN 1 ELSE DigitsToNat(SubSeq(f, i + 1, i + k))
             rest == FormulaSum(f, i + k + 1)
         IN  IF n = 0 \/ rest = None THEN None
             ELSE Some(n * ElementMass[f[i]] + Val(rest))

\* Formula(ion).isotope.mass: the mass, or None for FormulaError
FormulaMass(ion) == IF ion = <<>> THEN None ELSE FormulaSum(ion, 1)

\* the value `number` has after lines 97-100
signed_number(sp) == IF sp.sign = "-" THEN -py_int(sp) ELSE py_int(sp)

RECURSIVE mass_loop(_, _, _)
\* the loop of get_mass_of_ion from ion k on, with the added_mass of st;
\* looked holds the identifiers handed to Formula so far
mass_loop(tokens, k, st) ==
    IF k > Len(tokens) THEN [exc |-> NoExc, value |-> Some(st.added_mass),
                             looked |-> st.looked, log |-> <<>>]
    ELSE LET sp == split_ion(tokens[k]) IN
         IF sp.exc # NoExc
         THEN [exc |-> sp.exc, value |-> None, looked |-> st.looked, log |-> <<>>]
         ELSE LET atom_mass == FormulaMass(sp.ion)
                  looked    == Append(st.looked, sp.ion)
              IN  IF atom_mass = None
                  THEN [exc |-> NoExc, value |-> None, looked |-> looked,
                        log |-> <<"formula">>]
                  ELSE mass_loop(tokens, k + 1,
                          [added_mass |-> st.added_mass
                                          + signed_number(sp) * Val(atom_mass),
                           looked |-> looked])

RECURSIVE mass_loop_skipping(_, _, _)
\* faulty variant: an identifier the lookup rejects is skipped
mass_loop_skipping(tokens, k, st) ==
    IF k > Len(tokens) THEN [exc |-> NoExc, value |-> Some(st.added_mass),
                             looked |-> st.looked, log |-> <<>>]
    ELSE LET sp        == split_ion(tokens[k])
             atom_mass == FormulaMass(sp.ion)
             looked    == Append(st.looked, sp.ion)
         IN  IF atom_mass = None
             THEN mass_loop_skipping(tokens, k + 1,
                     [added_mass |-> st.added_mass, looked |-> looked])
             ELSE mass_loop_skipping(tokens, k + 1,
                     [added_mass |-> st.added_mass
                                     + signed_number(sp) * Val(atom_mass),
                      looked |-> looked])

get_mass_skipping(tokens) ==
    mass_loop_skipping(tokens, 1, [added_mass |-> 0, looked |-> <<>>])

get_mass_of_ion(tokens) == mass_loop(tokens, 1, [added_mass |-> 0, looked |-> <<>>])

(* ----------------- get_multiplier_and_mass_from_adduct ---------------- *)
\* matchms.constants.ELECTRTON_MASS (0.00054858 Da) in units of 1e-4 Da
ELECTRTON_MASS == 5

\* faulty variant: only the multiplier is divided by the charge
final_outputs_undivided(c, pm, m) ==
    LET added_mass == m + ELECTRTON_MASS * (-c) IN
    IF Abs(c) = 0 THEN [exc |-> "ZeroDivisionError", value |-> <<None, None>>]
    ELSE [exc |-> NoExc,
          value |-> <<Some(Frac(1 * pm, Abs(c))), Some(Frac(added_mass, 1))>>]

\* lines 26-30: the returned pair, or the exception of a division by zero
final_outputs(c, pm, m) ==
    LET added_mass == m + ELECTRTON_MASS * (-c) IN
    IF Abs(c) = 0 THEN [exc |-> "ZeroDivisionError", value |-> <<None, None>>]
    ELSE [exc |-> NoExc,
          value |-> <<Some(Frac(1 * pm, Abs(c))), Some(Frac(added_mass, Abs(c)))>>]

Failure == [exc |-> NoExc, value |-> <<None, None>>]

Raise(e) == [exc |-> e, value |-> <<None, None>>]

\* the whole call as a function of its argument
get_multiplier_and_mass_from_adduct(s) ==
    LET c == get_charge_of_adduct(s).value IN
    IF c = None THEN Failure
    ELSE LET r == get_ions_from_adduct(s) IN
         IF r.exc # NoExc THEN Raise(r.exc)
         ELSE IF r.parent_mass = None \/ r.ions = None THEN Failure
         ELSE LET m == get_mass_of_ion(Val(r.ions)) IN
              IF m.exc # NoExc THEN Raise(m.exc)
              ELSE IF m.value = None THEN Failure
              ELSE final_outputs(Val(c), Val(r.parent_mass), Val(m.value))

(* ------------------------------- inputs ------------------------------- *)
StringsUpTo(alphabet, n) == UNION {[1..k -> alphabet] : k \in 0..n}

BodyAlphabet == {"[", "]", "+", "-", "M", "H", "2", "0"}

Prefixes == {<<>>, <<"[">>}

ChargeSuffixes == {<<"]", "+">>, <<"]", "2", "-">>, <<"]", "0", "+">>}

Suffixes == {<<>>} \cup ChargeSuffixes

\* character-level inputs: any string of at most MaxBody characters, alone or
\* inside an opening bracket and a closing bracket with a charge
CharInputs ==
    {p \o b \o x : p \in Prefixes, b \in StringsUpTo(BodyAlphabet, MaxBody),
                    x \in Suffixes}

RECURSIVE Flatten(_)
Flatten(ss) == IF ss = <<>> THEN <<>> ELSE Head(ss) \o Flatten(Tail(ss))

Parents == {<<"M">>, <<"2", "M">>}

IonCounts == {<<>>, <<"2">>}

\* the keys of the abbreviation table, a formula and an identifier that is
\* no formula
IonIdents == DOMAIN abbrev_to_formula \cup {<<"H">>, <<"Q">>}

IonTokens == {<<sg>> \o c \o id : sg \in Signs, c \in IonCounts, id \in IonIdents}

\* the ion tokens that open a token-level input: none, a formula, an
\* identifier that is no formula
IonContexts == {<<>>, <<"-", "H">>, <<"+", "Q">>}

\* token-level inputs: a bracketed parent-mass token followed by a context
\* and at most MaxIons ion tokens, and a charge
IonCharges == {<<"]", "+">>, <<"]", "2", "-">>}

IonInputs ==
    {<<"[">> \o p \o c \o Flatten(ts) \o x :
        p \in Parents, c \in IonContexts, ts \in StringsUpTo(IonTokens, MaxIons),
        x \in IonCharges}

ChargeHeads == {<<>>, <<"[", "M">>, <<"[", "2", "M", "-", "H">>}

TailAlphabet == {"]", "+", "-", "2", "0", "H"}

\* charge-level inputs: nothing or an opened adduct, followed by any string
\* of at most MaxTail characters
ChargeInputs == {h \o t : h \in ChargeHeads, t \in StringsUpTo(TailAlphabet, MaxTail)}

(* ------------------------------- actions ------------------------------ *)
\* the state when get_multiplier_and_mass_from_adduct is entered with an
\* argument of the set inputs
Entered(inputs) ==
    /\ adduct \in inputs
    /\ pc = "start"
    /\ charge = None
    /\ parent_mass = None
    /\ ions = None
    /\ ions_split = <<>>
    /\ parent_span = None
    /\ ion_spans = <<>>
    /\ mass_of_ions = None
    /\ lookups = <<>>
    /\ result = <<None, None>>
    /\ raised = NoExc
    /\ log = <<>>
    /\ called = <<>>

Init == Entered(CharInputs)

InitIons == Entered(IonInputs)

InitCharge == Entered(ChargeInputs)

\* lines 14-16
CallGetCharge ==
    /\ pc = "start"
    /\ LET r == get_charge_of_adduct(adduct) IN
       /\ charge' = r.value
       /\ log' = log \o r.log
       /\ pc' = IF r.value = None THEN "done" ELSE "ions"
    /\ called' = Append(called, "get_charge_of_adduct")
    /\ UNCHANGED <<adduct, parent_mass, ions, ions_split, parent_span, ion_spans,
                   mass_of_ions, lookups, result, raised>>

\* lines 18-21
CallGetIons ==
    /\ pc = "ions"
    /\ LET r == get_ions_from_adduct(adduct) IN
       /\ parent_mass' = r.parent_mass
       /\ ions' = r.ions
       /\ ions_split' = r.ions_split
       /\ parent_span' = r.parent_span
       /\ ion_spans' = r.ion_spans
       /\ log' = log \o r.log
       /\ raised' = r.exc
       /\ pc' = IF r.exc # NoExc \/ r.parent_mass = None \/ r.ions = None
                THEN "done" ELSE "mass"
    /\ called' = Append(called, "get_ions_from_adduct")
    /\ UNCHANGED <<adduct, charge, mass_of_ions, lookups, result>>

\* lines 23-25
CallGetMass ==
    /\ pc = "mass"
    /\ LET r == get_mass_of_ion(Val(ions)) IN
       /\ mass_of_ions' = r.value
       /\ lookups' = r.looked
       /\ log' = log \o r.log
       /\ raised' = r.exc
       /\ pc' = IF r.exc # NoExc \/ r.value = None THEN "done" ELSE "final"
    /\ called' = Append(called, "get_mass_of_ion")
    /\ UNCHANGED <<adduct, charge, parent_mass, ions, ions_split, parent_span,
                   ion_spans, result>>

\* lines 26-30
Return ==
    /\ pc = "final"
    /\ LET r == final_outputs(Val(charge), Val(parent_mass), Val(mass_of_ions)) IN
       /\ result' = r.value
       /\ raised' = r.exc
    /\ pc' = "done"
    /\ UNCHANGED <<adduct, charge, parent_mass, ions, ions_split, parent_span,
                   ion_spans, mass_of_ions, lookups, log, called>>

Next == CallGetCharge \/ CallGetIons \/ CallGetMass \/ Return

Spec == Init /\ [][Next]_vars

SpecIons == InitIons /\ [][Next]_vars

SpecCharge == InitCharge /\ [][Next]_vars

(* ------------------------------- claims ------------------------------- *)
Returned == pc = "done" /\ raised = NoExc

Succeeded == Returned /\ result[1] # None /\ result[2] # None

HasCalled(f) == \E k \in 1..Len(called) : called[k] = f

Contains(s, ch) == \E k \in 1..Len(s) : s[k] = ch

\* C1: every call ends by returning a pair of two values or the pair
\* (None, None); it never returns a pair with one None and never raises.
C1_TwoOutcomes ==
    pc = "done" =>
        /\ raised = NoExc
        /\ (result[1] = None) <=> (result[2] = None)

RECURSIVE BracketPairs(_, _, _)
\* the number of "[" of s from i on that are closed by a later "]", with
\* `open` brackets waiting to be closed
BracketPairs(s, i, open) ==
    IF i > Len(s) THEN 0
    ELSE IF s[i] = "[" THEN BracketPairs(s, i + 1, open + 1)
    ELSE IF s[i] = "]" /\ open > 0 THEN 1 + BracketPairs(s, i + 1, open - 1)
    ELSE BracketPairs(s, i + 1, open)

\* C2: when the adduct contains "[" and the number of bracket-delimited
\* regions is not one, get_ions_from_adduct fails and the call returns
\* (None, None).  Stated for the calls that return, so that a violation is
\* not the IndexError of C6.
C2_BracketsOnce ==
    (Returned /\ Contains(adduct, "[") /\ BracketPairs(adduct, 1, 0) # 1) =>
        /\ result = <<None, None>>
        /\ (HasCalled("get_ions_from_adduct") => ions = None /\ parent_mass = None)

\* the positions where "]", an optional digit and a sign occur
ChargeOccurrences(s) ==
    {i \in 1..Len(s) :
        /\ s[i] = "]"
        /\ \/ At(s, i + 1) \in Signs
           \/ At(s, i + 1) \in Digits /\ At(s, i + 2) \in Signs}

\* the charge written at occurrence i: the sign applied to the digit, to 1
\* when there is no digit
WrittenCharge(s, i) ==
    LET digit == At(s, i + 1) \in Digits
        size  == IF digit THEN DigitVal[s[i + 1]] ELSE 1
        sign  == IF digit THEN s[i + 2] ELSE s[i + 1]
    IN  IF sign = "-" THEN -size ELSE size

\* C3: when the charge pattern does not occur exactly once, the charge is
\* None and the call returns (None, None) without get_ions_from_adduct being
\* called; when it occurs exactly once, the charge is the sign applied to the
\* digit, to 1 when there is no digit.
C3_ChargeOnce ==
    HasCalled("get_charge_of_adduct") =>
        LET occ == ChargeOccurrences(adduct) IN
        IF Cardinality(occ) # 1
        THEN /\ charge = None
             /\ Returned
             /\ result = <<None, None>>
             /\ called = <<"get_charge_of_adduct">>
             /\ log = <<"charge_count">>
        ELSE charge = Some(WrittenCharge(adduct, CHOOSE i \in occ : TRUE))

C3_Witness ==
    /\ Cardinality(ChargeOccurrences(adduct)) > 1
    /\ Contains(adduct, "M")
    /\ pc = "done"

RECURSIVE SignedSum(_)
\* the sum of count * mass over the ion tokens, negated for the sign "-"
SignedSum(tokens) ==
    IF tokens = <<>> THEN 0
    ELSE LET sp == split_ion(Head(tokens))
             m  == Val(FormulaMass(sp.ion)) * py_int(sp)
         IN  (IF sp.sign = "+" THEN m ELSE -m) + SignedSum(Tail(tokens))

\* C4: on success multiplier * |c| = p and correctionMass * |c| is the signed
\* sum of the ion masses minus c * electronMass (the outputs are fractions
\* num/den with den > 0).
C4_Outputs ==
    Succeeded =>
        LET c == Val(charge)
            p == Val(parent_mass)
            multiplier == Val(result[1])
            correction == Val(result[2])
        IN  /\ multiplier.den > 0 /\ correction.den > 0
            /\ multiplier.num * Abs(c) = p * multiplier.den
            /\ correction.num * Abs(c)
                 = (SignedSum(Val(ions)) - c * ELECTRTON_MASS) * correction.den

C4_Witness ==
    /\ Succeeded
    /\ Val(charge) = -2
    /\ Val(parent_mass) = 2
    /\ Len(Val(ions)) = 2
    /\ SignedSum(Val(ions)) # 0

Rejected(token) == FormulaMass(split_ion(token).ion) = None

\* C5: when the lookup rejects the identifier of at least one ion token,
\* get_mass_of_ion returns None and the call returns (None, None) without
\* raising; a result that is not None needs every identifier resolved.
C5_AllOrNothing ==
    (ions # None /\ \E k \in 1..Len(Val(ions)) : Rejected(Val(ions)[k])) =>
        /\ pc \in {"mass", "done"}
        /\ pc = "done" => /\ HasCalled("get_mass_of_ion")
                          /\ mass_of_ions = None
                          /\ raised = NoExc
                          /\ result = <<None, None>>

C5_Witness ==
    /\ pc = "done"
    /\ ions # None
    /\ Len(Val(ions)) = 2
    /\ ~Rejected(Val(ions)[1])
    /\ Rejected(Val(ions)[2])

\* C6: when the parent-mass pattern does not match exactly once in the
\* working substring, a warning is logged, the first match sets the parent
\* multiplier and the call neither fails nor raises for that.
C6_ParentCountWarningOnly ==
    (HasCalled("get_ions_from_adduct") /\ ions_part(adduct) # None) =>
        LET w     == Val(ions_part(adduct))
            found == FindAllParent(w, 1)
        IN  Len(found) # 1 =>
               /\ \E k \in 1..Len(log) : log[k] = "parent_count"
               /\ raised \notin {"IndexError"}
               /\ parent_mass # None
               /\ ions # None

\* C7: when both get_charge_of_adduct and get_ions_from_adduct gave a value,
\* the parent multiplier is at least 1 and the charge is not 0.
C7_ParsedAdduct ==
    (charge # None /\ parent_mass # None) =>
        /\ Val(parent_mass) >= 1
        /\ Val(charge) # 0

\* the string with the identifier of the ion token at span sp replaced by
\* its formula of the abbreviation table, when it has one
ExpandAt(s, sp) ==
    LET token == split_ion(SpanText(s, sp))
        start == sp.last - Len(token.ion) + 1
    IN  IF token.ion \in DOMAIN abbrev_to_formula
        THEN SubSeq(s, 1, start - 1) \o abbrev_to_formula[token.ion]
             \o SubSeq(s, sp.last + 1, Len(s))
        ELSE s

Abbreviated(s, sp) == split_ion(SpanText(s, sp)).ion \in DOMAIN abbrev_to_formula

\* C8: an adduct with an ion token whose identifier is an abbreviation and
\* the adduct with that identifier replaced by its formula have the same
\* outcome: the same multiplier, correction mass and None or not None.
C8_AbbreviationEquivalence ==
    pc = "done" =>
        \A k \in 1..Len(FindAllIons(adduct, 1)) :
            LET other == get_multiplier_and_mass_from_adduct(
                             ExpandAt(adduct, FindAllIons(adduct, 1)[k]))
            IN  other.exc = raised /\ other.value = result

C8_Witness ==
    /\ Succeeded
    /\ \E k \in 1..Len(FindAllIons(adduct, 1)) :
          /\ Abbreviated(adduct, FindAllIons(adduct, 1)[k])
          /\ ExpandAt(adduct, FindAllIons(adduct, 1)[k]) # adduct

\* C9: replace_abbreviations keeps the length and the order of the tokens;
\* each output token splits into the sign and the count of the input token
\* (1 when it has no digits) and into the formula of the table when the input
\* identifier is a key, the input identifier otherwise; no split fails.
C9_ReplaceFrame ==
    /\ raised # "AssertionError"
    /\ ions # None =>
        /\ Len(Val(ions)) = Len(ions_split)
        /\ \A k \in 1..Len(ions_split) :
              LET a == split_ion(ions_split[k])
                  b == split_ion(Val(ions)[k])
              IN  /\ a.exc = NoExc /\ b.exc = NoExc
                  /\ b.sign = ions_split[k][1]
                  /\ py_int(b) = py_int(a)
                  /\ (At(ions_split[k], 2) \notin Digits) => py_int(b) = 1
                  /\ b.ion = IF a.ion \in DOMAIN abbrev_to_formula
                             THEN abbrev_to_formula[a.ion] ELSE a.ion

C9_Witness ==
    /\ ions # None
    /\ Len(ions_split) = 2
    /\ split_ion(ions_split[2]).ion = <<"H", "a", "c">>
    /\ ~split_ion(ions_split[2]).isInt
    /\ split_ion(ions_split[1]).ion = <<"Q">>

Covers(outer, inner) == outer.first <= inner.first /\ inner.last <= outer.last

\* C10: the token that set the parent multiplier is not in the ion token list
\* get_ions_from_adduct returns, so it is never handed to the formula lookup.
C10_ParentApart ==
    parent_span # None =>
        \A k \in 1..Len(ion_spans) : ~Covers(ion_spans[k], Val(parent_span))

====
